---- MODULE Spec2Model ----
(***************************************************************************)
(* Model of the serverless authentication service of legal_infographics    *)
(* (src/legal_infographics/main.py) and of the provisioning script         *)
(* (src/create_users.py), with the rate limiter (middleware/rate_limit.py), *)
(* the database-backed login (api/auth.py) and the access and version      *)
(* methods of the models (models/user.py, models/infographic.py).          *)
(*                                                                         *)
(* Python strings are sequences of one-character strings.  Python values   *)
(* that may have several types (what json.loads returns, Optional[str])    *)
(* are records tagged with their type in field t.                          *)
(***************************************************************************)
EXTENDS Integers, Sequences, FiniteSets, TLC

VARIABLES
    USERS,         \* the USERS environment variable of the process
    public_files,  \* the files that exist under public/
    last,          \* the last HTTP request handled, with its response
    issued,        \* usernames for which "Successful login" was logged
    first,         \* the first verify_token call of the run and its result
    call,          \* the last direct call of a function, with its result
    tokens,        \* the <<username, access_token>> pairs login has returned
    startup,       \* the value USERS had when the process started
    attempts,      \* per watched username, its logins so far: ok and failed
    \* RateLimitMiddleware (middleware/rate_limit.py)
    now,                  \* the value time.time() returned last
    requests_per_minute,  \* self.requests_per_minute
    requests,             \* self.requests: per client IP, a list of times
    admitted,             \* per watched IP, the times of the requests passed on
    pending,              \* per watched IP, the dispatches suspended at call_next
    \* the file system of the process
    disk,                 \* the regular files, each by its absolute path
    \* the database (models/user.py, models/infographic.py)
    users_table,          \* the rows of table users
    versions,             \* infographic.versions of one infographic
    newest,               \* the version create_version returned last
    infographic_permissions  \* the rows of table infographic_permissions

\* the service of main.py
service ==
    <<USERS, public_files, issued, first, call, tokens, startup, attempts>>

limiter == <<now, requests_per_minute, requests, admitted, pending>>

pages == <<disk>>

database == <<users_table, versions, newest, infographic_permissions>>

\* what the handlers of main.py leave alone
components == <<limiter, pages, database>>

vars == <<service, last, components>>

----------------------------------------------------------------------------
(* Bounds of the model *)

\* longest password drawn as an input
MaxPwLen == 1
\* os.urandom(16) draws 16 bytes; the model draws SaltBytes of them
SaltBytes == 1
\* longest name embedded in a generated token
MaxNameLen == 2
MaxAttempts == 2
MaxUsers == 1
MaxTicks == 3
MaxLimit == 2
MaxPending == 2
MaxRejected == 2
\* versions created for the infographic in one run
MaxVersions == 4
\* most rows of infographic_permissions
MaxRows == 2

----------------------------------------------------------------------------
(* Python values *)

PyNone == [t |-> "None"]
PyStr(s) == [t |-> "str", v |-> s]
PyInt(n) == [t |-> "int", v |-> n]
PyList(l) == [t |-> "list", v |-> l]
PyDict(f) == [t |-> "dict", v |-> f]

\* truth value of an Optional[str] in "if not x"
Truthy(x) == x.t = "str" /\ x.v # <<>>

Min(a, b) == IF a < b THEN a ELSE b
Max(a, b) == IF a > b THEN a ELSE b

\* s.startswith(p)
StartsWith(s, p) == Len(s) >= Len(p) /\ SubSeq(s, 1, Len(p)) = p

\* s.endswith(p)
EndsWith(s, p) == Len(s) >= Len(p) /\ SubSeq(s, Len(s) - Len(p) + 1, Len(s)) = p

\* s[start:stop], either index possibly negative
Slice(s, start, stop) ==
    LET norm(i) == IF i < 0 THEN Max(Len(s) + i, 0) ELSE Min(i, Len(s))
        lo == norm(start)
        hi == norm(stop)
    IN  IF lo >= hi THEN <<>> ELSE SubSeq(s, lo + 1, hi)

\* s[start:]
SliceFrom(s, start) == Slice(s, start, Len(s))

\* s.split(sep) for a one-character separator: the list of parts
RECURSIVE Split(_, _)
Split(s, sep) ==
    IF \A i \in 1..Len(s) : s[i] # sep
    THEN <<s>>
    ELSE LET k == CHOOSE i \in 1..Len(s) :
                      s[i] = sep /\ \A j \in 1..(i - 1) : s[j] # sep
         IN  <<SubSeq(s, 1, k - 1)>> \o Split(SubSeq(s, k + 1, Len(s)), sep)

\* needle in haystack, for two strings
IsSubstring(needle, haystack) ==
    \E i \in 0..(Len(haystack) - Len(needle)) :
        SubSeq(haystack, i + 1, i + Len(needle)) = needle

----------------------------------------------------------------------------
(* Hashing *)

HexDigits == <<"0", "1", "2", "3", "4", "5", "6", "7",
               "8", "9", "a", "b", "c", "d", "e", "f">>

\* bytes.hex(): two hexadecimal digits per byte
RECURSIVE Hex(_)
Hex(bytes) ==
    IF bytes = <<>> THEN <<>>
    ELSE <<HexDigits[(bytes[1] \div 16) + 1], HexDigits[(bytes[1] % 16) + 1]>>
         \o Hex(Tail(bytes))

\* str.encode(): the UTF-8 byte of each character of the model's alphabet
Utf8(c) ==
    CASE c = " " -> 32
      [] c = "\"" -> 34
      [] c = "$" -> 36
      [] c = "D" -> 68 [] c = "E" -> 69 [] c = "N" -> 78 [] c = "O" -> 79
      [] c = "n" -> 110 [] c = "o" -> 111
      [] c = "0" -> 48 [] c = "1" -> 49 [] c = "2" -> 50 [] c = "3" -> 51
      [] c = "4" -> 52 [] c = "5" -> 53 [] c = "6" -> 54 [] c = "7" -> 55
      [] c = "8" -> 56 [] c = "9" -> 57
      [] c = "a" -> 97 [] c = "b" -> 98 [] c = "c" -> 99 [] c = "d" -> 100
      [] c = "e" -> 101 [] c = "f" -> 102
      [] OTHER -> 63

Encode(s) == [i \in 1..Len(s) |-> Utf8(s[i])]

\* hashlib.sha256(data).hexdigest(), idealised: a deterministic, collision-free
\* map from byte strings to non-empty strings of hexadecimal digits (the
\* length digit stands for the padding; the digest of b"" is not empty)
sha256_hexdigest(data) == <<HexDigits[(Len(data) % 16) + 1]>> \o Hex(data)

\* the byte values the model draws
ByteValues == {0, 171}

\* os.urandom(n): every sequence of n bytes
urandom(n) == [1..n -> ByteValues]

----------------------------------------------------------------------------
(* Configuration (main.py, get_users) *)

\* The text of the USERS environment variable: unset, a text that is not
\* JSON (the empty text included), or a JSON text given by the value it
\* denotes.
EnvUnset == [kind |-> "unset"]
EnvGarbage == [kind |-> "garbage"]
EnvJson(v) == [kind |-> "json", value |-> v]

EmptyDict == PyDict([u \in {} |-> PyNone])

\* os.getenv("USERS", "{}")
getenv_USERS == IF USERS.kind = "unset" THEN EnvJson(EmptyDict) ELSE USERS

\* the characters of a JSON string literal's content: '"' and '\' escaped
RECURSIVE JsonEscape(_)
JsonEscape(s) ==
    IF s = <<>> THEN <<>>
    ELSE (IF s[1] \in {"\"", "\\"} THEN <<"\\", s[1]>> ELSE <<s[1]>>)
         \o JsonEscape(Tail(s))

RECURSIVE JsonUnescape(_)
JsonUnescape(t) ==
    IF t = <<>> THEN <<>>
    ELSE IF t[1] = "\\" /\ Len(t) >= 2
    THEN <<t[2]>> \o JsonUnescape(SubSeq(t, 3, Len(t)))
    ELSE <<t[1]>> \o JsonUnescape(Tail(t))

\* json.dumps and json.loads of a str
json_dumps_str(s) == <<"\"">> \o JsonEscape(s) \o <<"\"">>
json_loads_str(t) == JsonUnescape(SubSeq(t, 2, Len(t) - 1))

\* json.dumps(users) for a dict of str to str: the text of an object, given
\* by its members, each a pair of string literals
json_dumps(users) ==
    [kind |-> "object",
     members |-> {<<json_dumps_str(k), json_dumps_str(users[k])>> :
                      k \in DOMAIN users}]

\* json.loads(text): the value, or JSONDecodeError
json_loads(text) ==
    CASE text.kind = "json" -> [exc |-> "none", ret |-> text.value]
      [] text.kind = "object" ->
             LET keys == {json_loads_str(m[1]) : m \in text.members}
                 member(k) ==
                     CHOOSE m \in text.members : json_loads_str(m[1]) = k
             IN  [exc |-> "none",
                  ret |-> PyDict([k \in keys |->
                                     PyStr(json_loads_str(member(k)[2]))])]
      [] OTHER -> [exc |-> "JSONDecodeError", ret |-> PyNone]

get_users ==
    LET users_json == getenv_USERS
        loaded == json_loads(users_json)
    IN  IF loaded.exc = "JSONDecodeError" THEN EmptyDict ELSE loaded.ret

\* "username in users" for a str username: dict keys, list elements, substring
\* of a str; TypeError for a container that is not iterable
PyIn(item, container) ==
    CASE container.t = "dict" ->
             [exc |-> "none", ret |-> item \in DOMAIN container.v]
      [] container.t = "list" ->
             [exc |-> "none",
              ret |-> \E i \in 1..Len(container.v) : container.v[i] = PyStr(item)]
      [] container.t = "str" ->
             [exc |-> "none", ret |-> IsSubstring(item, container.v)]
      [] OTHER -> [exc |-> "TypeError", ret |-> FALSE]

----------------------------------------------------------------------------
(* Credential store (main.py) *)

DOLLAR == "$"

\* verify_password unpacking the first two parts and ignoring the rest
verify_password_FirstTwoParts(plain_password, hashed_password) ==
    IF hashed_password.t # "str"
    THEN FALSE
    ELSE LET parts == Split(hashed_password.v, DOLLAR)
         IN  IF Len(parts) < 2
             THEN FALSE
             ELSE LET salt == parts[1]
                      hash_value == parts[2]
                      computed_hash ==
                          sha256_hexdigest(Encode(plain_password \o salt))
                  IN  computed_hash = hash_value

\* verify_password dropping the empty parts of the split
verify_password_SkipEmptyParts(plain_password, hashed_password) ==
    IF hashed_password.t # "str"
    THEN FALSE
    ELSE LET split == Split(hashed_password.v, DOLLAR)
             parts == SelectSeq(split, LAMBDA part : part # <<>>)
         IN  IF Len(parts) # 2
             THEN FALSE
             ELSE LET salt == parts[1]
                      hash_value == parts[2]
                      computed_hash ==
                          sha256_hexdigest(Encode(plain_password \o salt))
                  IN  computed_hash = hash_value

verify_password(plain_password, hashed_password) ==
    IF hashed_password.t # "str"
    THEN FALSE     \* AttributeError: no split; caught by the bare except
    ELSE LET parts == Split(hashed_password.v, DOLLAR)
         IN  IF Len(parts) # 2
             THEN FALSE     \* ValueError on unpacking; caught
             ELSE LET salt == parts[1]
                      hash_value == parts[2]
                      computed_hash ==
                          sha256_hexdigest(Encode(plain_password \o salt))
                  IN  computed_hash = hash_value

\* get_password_hash hashing salt + password where verify_password hashes
\* password + salt
get_password_hash_SaltFirst(password, random) ==
    LET salt == Hex(random)
        hashed == sha256_hexdigest(Encode(salt \o password))
    IN  salt \o <<DOLLAR>> \o hashed

\* get_password_hash salting every password with the same salt
get_password_hash_FixedSalt(password, random) ==
    LET salt == Hex([i \in 1..Len(random) |-> 0])
        hashed == sha256_hexdigest(Encode(password \o salt))
    IN  salt \o <<DOLLAR>> \o hashed

\* random: the bytes os.urandom returns in this call
get_password_hash(password, random) ==
    LET salt == Hex(random)
        hashed == sha256_hexdigest(Encode(password \o salt))
    IN  salt \o <<DOLLAR>> \o hashed

\* [exc, ret]: the value returned, or the exception that escapes
authenticate_user(username, password) ==
    LET users == get_users
        member == PyIn(username, users)
    IN  IF member.exc # "none"
        THEN [exc |-> member.exc, ret |-> FALSE]
        ELSE IF ~member.ret
        THEN [exc |-> "none", ret |-> FALSE]
        ELSE IF users.t # "dict"
        THEN [exc |-> "TypeError", ret |-> FALSE]   \* users[username]
        ELSE [exc |-> "none",
              ret |-> verify_password(password, users.v[username])]

----------------------------------------------------------------------------
(* The provisioning script (create_users.py) *)

create_users_verify_password(password, hashed_password) ==
    IF hashed_password.t # "str"
    THEN FALSE
    ELSE LET parts == Split(hashed_password.v, DOLLAR)
         IN  IF Len(parts) # 2
             THEN FALSE
             ELSE LET salt == parts[1]
                      hash_value == parts[2]
                      computed_hash == sha256_hexdigest(Encode(password \o salt))
                  IN  computed_hash = hash_value

\* hash_password hashing the password without the salt
hash_password_Unsalted(password, random) ==
    LET salt == Hex(random)
        hashed == sha256_hexdigest(Encode(password))
    IN  salt \o <<DOLLAR>> \o hashed

hash_password(password, random) ==
    LET salt == Hex(random)
        hashed == sha256_hexdigest(Encode(password \o salt))
    IN  salt \o <<DOLLAR>> \o hashed

\* str.strip(): the blanks at both ends removed
RECURSIVE lstrip(_)
lstrip(s) == IF s # <<>> /\ s[1] = " " THEN lstrip(Tail(s)) ELSE s

RECURSIVE rstrip(_)
rstrip(s) ==
    IF s # <<>> /\ s[Len(s)] = " "
    THEN rstrip(SubSeq(s, 1, Len(s) - 1))
    ELSE s

strip(s) == rstrip(lstrip(s))

\* str.lower() on the letters of the model's alphabet
lower(s) ==
    [i \in 1..Len(s) |->
        CASE s[i] = "D" -> "d" [] s[i] = "O" -> "o"
          [] s[i] = "N" -> "n" [] s[i] = "E" -> "e"
          [] OTHER -> s[i]]

----------------------------------------------------------------------------
(* Token service (main.py) *)

TOKEN_PREFIX == <<"u", "s", "e", "r", "_">>
TOKEN_SUFFIX == <<"_", "t", "o", "k", "e", "n">>

\* create_access_token numbering the tokens it gives to a username
create_access_token_Numbered(username) ==
    TOKEN_PREFIX \o username
        \o (IF username \in issued THEN <<"2">> ELSE <<>>) \o TOKEN_SUFFIX

create_access_token(username) == TOKEN_PREFIX \o username \o TOKEN_SUFFIX

\* verify_token slicing one character short at the end
verify_token_ShortSlice(token) ==
    IF StartsWith(token, TOKEN_PREFIX) /\ EndsWith(token, TOKEN_SUFFIX)
    THEN PyStr(Slice(token, 5, -5))
    ELSE PyNone

\* verify_token testing the prefix or the suffix
verify_token_EitherEnd(token) ==
    IF StartsWith(token, TOKEN_PREFIX) \/ EndsWith(token, TOKEN_SUFFIX)
    THEN PyStr(Slice(token, 5, -6))
    ELSE PyNone

\* verify_token accepting a token only for a user who logged in
verify_token_Session(token) ==
    IF /\ StartsWith(token, TOKEN_PREFIX) /\ EndsWith(token, TOKEN_SUFFIX)
       /\ Slice(token, 5, -6) \in issued
    THEN PyStr(Slice(token, 5, -6))
    ELSE PyNone

\* verify_token accepting a token only for a key of the USERS object
verify_token_KnownUser(token) ==
    IF /\ StartsWith(token, TOKEN_PREFIX) /\ EndsWith(token, TOKEN_SUFFIX)
       /\ get_users.t = "dict"
       /\ Slice(token, 5, -6) \in DOMAIN get_users.v
    THEN PyStr(Slice(token, 5, -6))
    ELSE PyNone

\* Optional[str]
verify_token(token) ==
    IF StartsWith(token, TOKEN_PREFIX) /\ EndsWith(token, TOKEN_SUFFIX)
    THEN PyStr(Slice(token, 5, -6))
    ELSE PyNone

----------------------------------------------------------------------------
(* Request handlers (main.py, create_app) *)

\* raise HTTPException(status_code, detail)
HTTPException(status_code, detail) ==
    [status |-> status_code, body |-> [detail |-> detail]]

\* the handler registered for Exception
global_exception_handler ==
    [status |-> 500, body |-> [detail |-> "Internal server error"]]

\* login telling an unknown username from a wrong password
login_Enumerating(username, password) ==
    LET auth == authenticate_user(username, password)
        member == PyIn(username, get_users)
    IN  IF auth.exc # "none"
        THEN global_exception_handler
        ELSE IF auth.ret
        THEN [status |-> 200,
              body |-> [access_token |-> create_access_token(username),
                        token_type |-> "bearer",
                        username |-> username]]
        ELSE IF ~member.ret
        THEN HTTPException(401, "Unknown username")
        ELSE HTTPException(401, "Invalid username or password")

\* login refusing a username that has failed a login before
login_Lockout(username, password) ==
    LET auth == authenticate_user(username, password)
        locked == /\ username \in DOMAIN attempts
                  /\ attempts[username].failed > 0
    IN  IF auth.exc # "none"
        THEN global_exception_handler
        ELSE IF auth.ret /\ ~locked
        THEN [status |-> 200,
              body |-> [access_token |-> create_access_token(username),
                        token_type |-> "bearer",
                        username |-> username]]
        ELSE HTTPException(401, "Invalid username or password")

\* POST /auth/login
login(username, password) ==
    LET auth == authenticate_user(username, password)
    IN  IF auth.exc # "none"
        THEN global_exception_handler
        ELSE IF auth.ret
        THEN [status |-> 200,
              body |-> [access_token |-> create_access_token(username),
                        token_type |-> "bearer",
                        username |-> username]]
        ELSE HTTPException(401, "Invalid username or password")

\* get_current_user testing "username is None" where the code tests
\* "not username"
get_current_user_IsNone(credentials) ==
    LET username == verify_token(credentials)
    IN  IF username = PyNone
        THEN HTTPException(401, "Invalid token")
        ELSE [status |-> 200, body |-> [username |-> username.v]]

\* GET /auth/me, credentials being the bearer token HTTPBearer extracted
get_current_user(credentials) ==
    LET username == verify_token(credentials)
    IN  IF ~Truthy(username)
        THEN HTTPException(401, "Invalid token")
        ELSE [status |-> 200, body |-> [username |-> username.v]]

BEARER == <<"B", "e", "a", "r", "e", "r", " ">>

\* the token GET /infographic uses: auth_header and query_token are Optional[str]
\* request_token turning to the query parameter when the header's token is
\* empty
request_token_QueryFallback(auth_header, query_token) ==
    IF /\ Truthy(auth_header)
       /\ StartsWith(auth_header.v, BEARER)
       /\ Len(auth_header.v) > Len(BEARER)
    THEN PyStr(SliceFrom(auth_header.v, 7))
    ELSE query_token

request_token(auth_header, query_token) ==
    IF Truthy(auth_header) /\ StartsWith(auth_header.v, BEARER)
    THEN PyStr(SliceFrom(auth_header.v, 7))
    ELSE query_token

HTMLResponse(content) == [status |-> 200, body |-> [html |-> content]]

RedirectToLogin == HTMLResponse("Authentication Required: redirecting to /login")
InvalidTokenRedirect == HTMLResponse("Invalid Token: redirecting to /login")
InfographicBody == HTMLResponse("public/infographic.html")

\* the try block of protected_infographic: the response it returns, or the
\* HTTPException it raises
infographic_try(auth_header, query_token) ==
    LET token == request_token(auth_header, query_token)
    IN  IF ~Truthy(token)
        THEN [exc |-> "none", ret |-> RedirectToLogin]
        ELSE IF ~Truthy(verify_token(token.v))
        THEN [exc |-> "none", ret |-> InvalidTokenRedirect]
        ELSE IF "infographic.html" \notin public_files
        THEN [exc |-> "HTTPException",
              ret |-> HTTPException(404, "Infographic file not found")]
        ELSE [exc |-> "none", ret |-> InfographicBody]

\* protected_infographic serving every request that carries a token
protected_infographic_NoVerify(auth_header, query_token) ==
    LET token == request_token(auth_header, query_token)
    IN  IF ~Truthy(token)
        THEN RedirectToLogin
        ELSE IF "infographic.html" \notin public_files
        THEN HTTPException(500, "Internal server error")
        ELSE InfographicBody

\* GET /infographic: "except Exception" catches whatever the try block
\* raises, the HTTPException(404) included, and raises the 500
protected_infographic(auth_header, query_token) ==
    LET tried == infographic_try(auth_header, query_token)
    IN  IF tried.exc = "none"
        THEN tried.ret
        ELSE HTTPException(500, "Internal server error")

----------------------------------------------------------------------------
(* Inputs *)

\* all strings over chars of length at most n
Strings(chars, n) == UNION {[1..k -> chars] : k \in 0..n}

PwChars == {"a", DOLLAR}
Passwords == Strings(PwChars, MaxPwLen)

\* the passwords of the provisioned users
ProvisionedPasswords == {<<"a">>, <<DOLLAR>>}

\* the salts of the stored digests: SaltBytes equal bytes
ConfigSalts == {[i \in 1..SaltBytes |-> b] : b \in ByteValues}

GoodDigests ==
    {hash_password(p, r) : p \in ProvisionedPasswords, r \in ConfigSalts}

\* sha256(password).hexdigest(): the hash of a password under the empty salt
UnsaltedHash(p) == sha256_hexdigest(Encode(p))

\* stored strings that are not what hash_password returns
BadDigestStrings ==
    LET g == hash_password(<<"a">>, [i \in 1..SaltBytes |-> 0])
        parts == Split(g, DOLLAR)
    IN  { <<>>,                              \* ""
          parts[1] \o parts[2],              \* no '$'
          g \o <<DOLLAR, "0">>,              \* salt$hash$0
          parts[1] \o <<DOLLAR, DOLLAR>> \o parts[2],
          <<DOLLAR>>,
          parts[1] \o <<DOLLAR>>,            \* empty hash part
          <<DOLLAR>> \o UnsaltedHash(<<"a">>) }   \* empty salt part

DigestStrings == GoodDigests \cup BadDigestStrings

\* JSON values a USERS object may hold for a user
DigestValues ==
    {PyStr(d) : d \in DigestStrings}
    \cup {PyNone, PyInt(1), PyList(<<PyStr(<<"0", DOLLAR, "0">>)>>)}

UserA == <<"a">>
UserB == <<"b">>
LoginNames == {UserA, UserB, <<"A">>, <<>>}

\* the digest user b has in the two-user configurations
DigestB == PyStr(hash_password(<<DOLLAR>>, [i \in 1..SaltBytes |-> 0]))

\* the values of the USERS environment variable at process start
Configs ==
    {EnvUnset, EnvGarbage,
     EnvJson(PyNone), EnvJson(PyInt(1)), EnvJson(PyStr(UserA)),
     EnvJson(PyList(<<PyStr(UserA)>>)), EnvJson(EmptyDict)}
    \cup {EnvJson(PyDict([u \in {UserA} |-> PyStr(d)])) : d \in GoodDigests}
    \cup {EnvJson(PyDict([u \in {UserA, UserB} |->
                             IF u = UserA THEN d ELSE DigestB])) :
              d \in DigestValues}

NameChars == {"a", "_"}
Names == Strings(NameChars, MaxNameLen)

\* strings presented as tokens: a name between a head and a tail
TokenHeads == {<<>>, TOKEN_PREFIX, <<"u", "s", "e", "r">>,
               <<"U", "s", "e", "r", "_">>}
TokenTails == {<<>>, TOKEN_SUFFIX, <<"t", "o", "k", "e", "n">>,
               <<"_", "t", "o", "k", "e">>}
TokenStrings == {h \o n \o t : h \in TokenHeads, n \in Names, t \in TokenTails}

\* usernames handed to create_access_token
IssueNames == Names \cup LoginNames \cup {TOKEN_PREFIX, TOKEN_SUFFIX}

\* tokens presented to the service
ReqTokens ==
    {create_access_token(u) : u \in {UserA, <<"x">>, <<>>}}
    \cup {<<>>, <<"u", "s", "e", "r", "_", "t", "o", "k", "e", "n">>,
          TOKEN_PREFIX \o UserA}

AuthHeaders ==
    {PyNone, PyStr(<<"B", "a", "s", "i", "c">>)}
    \cup {PyStr(BEARER \o t) : t \in ReqTokens}

QueryTokens ==
    {PyNone, PyStr(<<>>), PyStr(create_access_token(UserA)),
     PyStr(<<"a">>)}

\* the <<authorization header, token query parameter>> of the requests
\* for /infographic: the header alone, the parameter alone, and both
InfographicRequests ==
    {<<h, PyNone>> : h \in AuthHeaders}
    \cup {<<PyNone, q>> : q \in QueryTokens}
    \cup {<<PyStr(<<"B", "a", "s", "i", "c">>),
            PyStr(create_access_token(UserA))>>,
          <<PyStr(BEARER), PyStr(create_access_token(UserA))>>,
          <<PyStr(BEARER \o TOKEN_PREFIX \o UserA),
            PyStr(create_access_token(UserA))>>,
          <<PyStr(BEARER \o create_access_token(UserA)), PyStr(<<"a">>)>>}

PublicFileNames == {"infographic.html"}

----------------------------------------------------------------------------
(* The service: one action per request handler *)

NoRequest == [op |-> "none"]

\* main.py does not mount RateLimitMiddleware
LimiterOff ==
    /\ now = 0
    /\ requests_per_minute = 0
    /\ requests = <<>>
    /\ admitted = <<>>
    /\ pending = <<>>

\* no file is looked at
PagesOff == disk = {}

\* no database is connected
DatabaseOff ==
    /\ users_table = {}
    /\ versions = <<>>
    /\ newest = PyNone
    /\ infographic_permissions = <<>>

ComponentsOff == LimiterOff /\ PagesOff /\ DatabaseOff

\* no username's logins are counted
NoneWatched == [u \in {} |-> [ok |-> 0, failed |-> 0]]
NoCall == [fn |-> "none"]

Init ==
    /\ USERS \in Configs
    /\ public_files \in SUBSET PublicFileNames
    /\ last = NoRequest
    /\ issued = {}
    /\ first = NoCall
    /\ call = NoCall
    /\ tokens = {}
    /\ startup = USERS
    /\ attempts = NoneWatched
    /\ ComponentsOff

\* the first verify_token call of the run is remembered, with whether it
\* came before every successful login
Remember(token, ret) ==
    IF first = NoCall
    THEN [fn |-> "verify_token", token |-> token, ret |-> ret,
          fresh |-> (issued = {})]
    ELSE first

\* the logins of a watched username are counted, up to MaxAttempts of
\* either outcome
Outcome(response) == IF response.status = 200 THEN "ok" ELSE "failed"

Counted(username, response) ==
    IF username \in DOMAIN attempts
    THEN [attempts EXCEPT ![username][Outcome(response)] = @ + 1]
    ELSE attempts

Login(username, password) ==
    LET response == login(username, password)
    IN  /\ username \in DOMAIN attempts =>
               attempts[username][Outcome(response)] < MaxAttempts
        /\ attempts' = Counted(username, response)
        /\ last' = [op |-> "login", username |-> username,
                    password |-> password,
                    auth |-> authenticate_user(username, password),
                    response |-> response]
        /\ issued' = IF response.status = 200
                     THEN issued \cup {username} ELSE issued
        /\ tokens' = IF response.status = 200
                     THEN tokens \cup {<<username, response.body.access_token>>}
                     ELSE tokens
        /\ UNCHANGED <<USERS, public_files, first, call, startup,
                   components>>

GetCurrentUser(token) ==
    /\ last' = [op |-> "auth_me", token |-> PyStr(token),
                identity |-> verify_token(token),
                response |-> get_current_user(token)]
    /\ first' = Remember(token, verify_token(token))
    /\ UNCHANGED <<USERS, public_files, issued, call, tokens, startup, attempts,
                   components>>

ProtectedInfographic(auth_header, query_token) ==
    LET token == request_token(auth_header, query_token)
        identity == IF Truthy(token) THEN verify_token(token.v) ELSE PyNone
    IN  /\ last' = [op |-> "infographic", auth_header |-> auth_header,
                    query_token |-> query_token, token |-> token,
                    identity |-> identity,
                    raised |-> infographic_try(auth_header, query_token).exc,
                    response |-> protected_infographic(auth_header, query_token)]
        /\ first' = IF Truthy(token) THEN Remember(token.v, identity) ELSE first
        /\ UNCHANGED <<USERS, public_files, issued, call, tokens, startup, attempts,
                   components>>

Next ==
    \/ \E username \in LoginNames, password \in Passwords :
           Login(username, password)
    \/ \E token \in ReqTokens : GetCurrentUser(token)
    \/ \E request \in InfographicRequests :
           ProtectedInfographic(request[1], request[2])

Spec == Init /\ [][Next]_vars

----------------------------------------------------------------------------
(* The service with one username's logins counted *)

WatchedNames == {UserA}
LoginUsers == {UserA, UserB}
LoginPasswords == ProvisionedPasswords \cup {<<>>}

\* the digest user a has in these configurations
DigestA == PyStr(hash_password(<<"a">>, [i \in 1..SaltBytes |-> 0]))

LoginConfigs ==
    {EnvJson(EmptyDict),
     EnvJson(PyDict([u \in {UserA} |-> DigestA])),
     EnvJson(PyDict([u \in {UserA, UserB} |->
                        IF u = UserA THEN DigestA ELSE DigestB]))}

InitLogin ==
    /\ USERS \in LoginConfigs
    /\ public_files = PublicFileNames
    /\ last = NoRequest
    /\ issued = {}
    /\ first = NoCall
    /\ call = NoCall
    /\ tokens = {}
    /\ startup = USERS
    /\ attempts = [u \in WatchedNames |-> [ok |-> 0, failed |-> 0]]
    /\ ComponentsOff

NextLogin ==
    \/ \E username \in LoginUsers, password \in LoginPasswords :
           Login(username, password)
    \/ \E token \in {create_access_token(UserA), TOKEN_PREFIX \o UserA} :
           GetCurrentUser(token)
    \/ \E auth_header \in {PyNone, PyStr(BEARER \o create_access_token(UserA))},
          query_token \in {PyNone} :
           ProtectedInfographic(auth_header, query_token)

SpecLogin == InitLogin /\ [][NextLogin]_vars

----------------------------------------------------------------------------
(* The service in a process whose environment changes *)

\* os.environ["USERS"] = value, by whatever runs in the process
SetEnv(value) ==
    /\ USERS' = value
    /\ UNCHANGED <<public_files, last, issued, first, call, tokens, startup,
                   attempts,
                   components>>

NextEnv ==
    \/ \E username \in LoginUsers, password \in LoginPasswords :
           Login(username, password)
    \/ \E value \in LoginConfigs : SetEnv(value)

SpecEnv == InitLogin /\ [][NextEnv]_vars

----------------------------------------------------------------------------
(* Provisioning, then the service (create_users.py, main.py) *)

DONE == <<"d", "o", "n", "e">>

\* the lines typed at the username prompt of create_users
UsernameLines ==
    { <<>>, <<" ">>, <<"a">>, <<" ", "a">>, <<"b">>, <<"\"">>,
      DONE, <<"D", "O", "N", "E", " ">> }

\* the lines typed at the password prompt, and the passwords sent to login
PasswordLines == { <<>>, <<"a">>, <<"a", " ">>, <<"b">> }

NoTyped == [username |-> <<>>, password |-> <<>>]

InitProvision ==
    /\ USERS = EnvUnset
    /\ public_files = PublicFileNames
    /\ last = NoRequest
    /\ issued = {}
    /\ first = NoCall
    /\ tokens = {}
    /\ startup = USERS
    /\ attempts = NoneWatched
    /\ ComponentsOff
    /\ call = [fn |-> "create_users", pc |-> "username", users |-> <<>>,
               line |-> <<>>, username |-> <<>>, typed |-> NoTyped,
               users_json |-> EnvUnset]

\* the username prompt: one pass of the while loop up to the password
\* prompt, or the break and what follows the loop
InputUsername(line) ==
    LET username == strip(line)
    IN  /\ call.fn = "create_users"
        /\ call.pc = "username"
        /\ \/ Cardinality(DOMAIN call.users) < MaxUsers
           \/ lower(username) = DONE
           \/ username \in DOMAIN call.users
        /\ call' =
               IF lower(username) = DONE
               THEN IF DOMAIN call.users = {}
                    THEN [call EXCEPT !.pc = "exit"]
                    ELSE [call EXCEPT !.pc = "emitted",
                                      !.users_json = json_dumps(call.users)]
               ELSE IF username = <<>> THEN call
               ELSE IF username \in DOMAIN call.users THEN call
               ELSE [call EXCEPT !.pc = "password", !.line = line,
                                 !.username = username]
        /\ UNCHANGED <<USERS, public_files, last, issued, first, tokens,
                       startup, attempts,
                   components>>

\* the password prompt and the rest of the pass; remember tells whether
\* this user's typed lines replace the ones remembered
InputPassword(line, random, remember) ==
    LET password == strip(line)
        hashed_password == hash_password(password, random)
    IN  /\ call.fn = "create_users"
        /\ call.pc = "password"
        /\ call' =
               IF password = <<>>
               THEN [call EXCEPT !.pc = "username", !.line = <<>>,
                                 !.username = <<>>]
               ELSE [call EXCEPT
                        !.pc = "username", !.line = <<>>, !.username = <<>>,
                        !.users = [k \in DOMAIN call.users \cup {call.username}
                                      |-> IF k = call.username
                                          THEN hashed_password
                                          ELSE call.users[k]],
                        !.typed = IF remember \/ call.typed = NoTyped
                                  THEN [username |-> call.line,
                                        password |-> line]
                                  ELSE call.typed]
        /\ UNCHANGED <<USERS, public_files, last, issued, first, tokens,
                       startup, attempts,
                   components>>

\* the printed value is stored as USERS and the service starts
Deploy ==
    /\ call.fn = "create_users"
    /\ call.pc = "emitted"
    /\ USERS' = call.users_json
    /\ startup' = USERS'
    /\ call' = [call EXCEPT !.pc = "deployed"]
    /\ UNCHANGED <<public_files, last, issued, first, tokens, attempts,
                   components>>

NextProvision ==
    \/ \E line \in UsernameLines : InputUsername(line)
    \/ \E line \in PasswordLines, random \in urandom(SaltBytes),
          remember \in BOOLEAN :
           InputPassword(line, random, remember)
    \/ Deploy
    \/ /\ call.pc = "deployed"
       /\ \E username \in {call.typed.username, strip(call.typed.username)},
             password \in PasswordLines :
              Login(username, password)

SpecProvision == InitProvision /\ [][NextProvision]_vars

----------------------------------------------------------------------------
(* RateLimitMiddleware (middleware/rate_limit.py) *)

\* "current_time - req_time < 60"
WINDOW == 60

\* the seconds between two values of time.time() are multiples of this
Granularity == 20

ClientIPs == {"10.0.0.1", "10.0.0.2"}
WatchedIP == "10.0.0.1"

\* the seconds that pass between one dispatch and the next
Elapsed == {0, Granularity, WINDOW}

\* self.requests[client_ip] of a defaultdict(list)
requests_of(client_ip) ==
    IF client_ip \in DOMAIN requests THEN requests[client_ip] ELSE <<>>

\* the comprehension keeping the times exactly 60 seconds old
clean_Inclusive(times, current_time) ==
    SelectSeq(times, LAMBDA req_time : current_time - req_time <= WINDOW)

\* "Clean old requests": the list comprehension
clean(times, current_time) ==
    SelectSeq(times, LAMBDA req_time : current_time - req_time < WINDOW)

\* dispatch testing "> requests_per_minute"
dispatch_Greater(client_ip, current_time) ==
    LET kept == clean(requests_of(client_ip), current_time)
    IN  IF Len(kept) > requests_per_minute
        THEN [exc |-> "HTTPException", requests |-> kept]
        ELSE [exc |-> "none", requests |-> Append(kept, current_time)]

\* dispatch losing its append while another dispatch of the client is
\* suspended
dispatch_Interleaved(client_ip, current_time) ==
    LET kept == clean(requests_of(client_ip), current_time)
    IN  IF Len(kept) >= requests_per_minute
        THEN [exc |-> "HTTPException", requests |-> kept]
        ELSE IF client_ip \in DOMAIN pending /\ pending[client_ip] > 0
        THEN [exc |-> "none", requests |-> kept]
        ELSE [exc |-> "none", requests |-> Append(kept, current_time)]

\* dispatch up to "await call_next(request)": the HTTPException (429, "Rate
\* limit exceeded") raised or none, and the list left in
\* self.requests[client_ip]. No await stands between the steps, so the event
\* loop runs them as one.
dispatch(client_ip, current_time) ==
    LET kept == clean(requests_of(client_ip), current_time)
    IN  IF Len(kept) >= requests_per_minute
        THEN [exc |-> "HTTPException", requests |-> kept]
        ELSE [exc |-> "none", requests |-> Append(kept, current_time)]

\* the service of main.py is not running
ServiceOff ==
    /\ USERS = EnvUnset
    /\ public_files = {}
    /\ issued = {}
    /\ first = NoCall
    /\ call = NoCall
    /\ tokens = {}
    /\ startup = USERS
    /\ attempts = NoneWatched

\* RateLimitMiddleware(app, requests_per_minute)
InitRate ==
    /\ ServiceOff
    /\ PagesOff
    /\ DatabaseOff
    /\ last = NoRequest
    /\ now = 0
    /\ requests_per_minute \in 1..MaxLimit
    /\ requests = <<>>
    /\ admitted = [ip \in {WatchedIP} |-> <<>>]
    /\ pending = [ip \in {WatchedIP} |-> 0]

\* the rejected requests of the client that came directly before this one
RejectedBefore(client_ip) ==
    IF last.op = "dispatch" /\ last.exc # "none" /\ last.client_ip = client_ip
    THEN last.rejected + 1
    ELSE 0

\* a request arrives: dispatch runs up to its await, or raises
Dispatch(client_ip, elapsed) ==
    LET current_time == now + elapsed
        result == dispatch(client_ip, current_time)
        passed == result.exc = "none"
    IN  /\ current_time <= MaxTicks * Granularity
        /\ (passed /\ client_ip \in DOMAIN pending)
               => pending[client_ip] < MaxPending
        /\ ~passed => RejectedBefore(client_ip) < MaxRejected
        /\ now' = current_time
        /\ requests' = [ip \in DOMAIN requests \cup {client_ip} |->
                           IF ip = client_ip THEN result.requests
                           ELSE requests[ip]]
        /\ admitted' = IF passed /\ client_ip \in DOMAIN admitted
                       THEN [admitted EXCEPT
                                ![client_ip] = Append(@, current_time)]
                       ELSE admitted
        /\ pending' = IF passed /\ client_ip \in DOMAIN pending
                      THEN [pending EXCEPT ![client_ip] = @ + 1]
                      ELSE pending
        /\ last' = [op |-> "dispatch", client_ip |-> client_ip,
                    current_time |-> current_time,
                    before |-> requests_of(client_ip),
                    exc |-> result.exc,
                    rejected |-> RejectedBefore(client_ip)]
        /\ UNCHANGED <<service, pages, database, requests_per_minute>>

\* call_next returns and dispatch returns the response
CallNextReturns(client_ip) ==
    /\ client_ip \in DOMAIN pending
    /\ pending[client_ip] > 0
    /\ pending' = [pending EXCEPT ![client_ip] = @ - 1]
    /\ UNCHANGED <<service, pages, database, last, now, requests_per_minute,
                   requests, admitted>>

NextRate ==
    \/ \E client_ip \in ClientIPs, elapsed \in Elapsed :
           Dispatch(client_ip, elapsed)
    \/ \E client_ip \in ClientIPs : CallNextReturns(client_ip)

SpecRate == InitRate /\ [][NextRate]_vars

----------------------------------------------------------------------------
(* Pages and static files (main.py, login_page and serve_static_files) *)

SLASH == "/"
DOTDOT == <<".", ".">>
PUBLIC == <<"p", "u", "b", "l", "i", "c">>
LOGIN_HTML == <<"l", "o", "g", "i", "n", ".", "h", "t", "m", "l">>
DOTENV == <<".", "e", "n", "v">>

\* "/".join(parts)
RECURSIVE JoinPath(_)
JoinPath(parts) ==
    IF parts = <<>> THEN <<>>
    ELSE IF Len(parts) = 1 THEN parts[1]
    ELSE parts[1] \o <<SLASH>> \o JoinPath(Tail(parts))

\* Path(text): whether it is absolute, and its parts; pathlib drops empty
\* parts and "." parts and keeps ".." parts
Path(text) ==
    [absolute |-> text # <<>> /\ text[1] = SLASH,
     parts |-> SelectSeq(Split(text, SLASH),
                         LAMBDA part : part # <<>> /\ part # <<".">>)]

\* a / b: an absolute b replaces a
PathJoin(a, b) ==
    IF b.absolute THEN b
    ELSE [absolute |-> a.absolute, parts |-> a.parts \o b.parts]

\* str(path)
PathStr(path) ==
    IF path.absolute THEN <<SLASH>> \o JoinPath(path.parts)
    ELSE IF path.parts = <<>> THEN <<".">>
    ELSE JoinPath(path.parts)

\* the working directory of the process, which holds public/
Cwd == << <<"s", "r", "v">> >>

\* the directories that exist, each by its absolute path
Dirs == {<<>>, Cwd, Cwd \o <<PUBLIC>>}

\* the files that may exist: two under public/ and one next to it
FileCandidates ==
    {Cwd \o <<PUBLIC, <<"a">> >>, Cwd \o <<PUBLIC, LOGIN_HTML>>,
     Cwd \o <<DOTENV>>}

Parent(dir) == IF dir = <<>> THEN <<>> ELSE SubSeq(dir, 1, Len(dir) - 1)

\* the operating system following the parts of a path from a directory:
\* ".." leads to the parent, and every part but the last must be a directory
RECURSIVE Walk(_, _)
Walk(at, parts) ==
    IF parts = <<>>
    THEN [found |-> at \in Dirs \cup disk, at |-> at]
    ELSE IF at \notin Dirs
    THEN [found |-> FALSE, at |-> at]
    ELSE Walk(IF Head(parts) = DOTDOT THEN Parent(at)
              ELSE Append(at, Head(parts)),
              Tail(parts))

\* what the path names in the file system
Lookup(path) == Walk(IF path.absolute THEN <<>> ELSE Cwd, path.parts)

\* path.exists()
exists(path) == Lookup(path).found

\* FileResponse(path): the content of the file the path names
FileResponse(path) == [status |-> 200, body |-> [file |-> Lookup(path).at]]

\* GET /{filename:path}: HTTPExceptions are raised again as they are
serve_static_files(filename) ==
    LET file_path == PathJoin(Path(PUBLIC), Path(filename))
    IN  IF ~exists(file_path)
        THEN HTTPException(404, "File not found")
        ELSE IF ~StartsWith(PathStr(file_path), PathStr(Path(PUBLIC)))
        THEN HTTPException(403, "Access denied")
        ELSE FileResponse(file_path)

\* the try block of login_page
login_page_try ==
    IF ~exists(Path(PUBLIC \o <<SLASH>> \o LOGIN_HTML))
    THEN [exc |-> "HTTPException",
          ret |-> HTTPException(404, "Login page not found")]
    ELSE [exc |-> "none", ret |-> HTMLResponse("public/login.html")]

\* GET /login: "except Exception" catches the HTTPException(404) as well
login_page ==
    IF login_page_try.exc = "none"
    THEN login_page_try.ret
    ELSE HTTPException(500, "Internal server error")

\* the filenames requested; none names a directory or another route
StaticFilenames ==
    {<<"a">>, <<"b">>, DOTENV, LOGIN_HTML,
     <<".", "/", "a">>,
     DOTDOT \o <<SLASH>> \o DOTENV,
     DOTDOT \o <<SLASH, "b">>,
     DOTDOT \o <<SLASH>> \o PUBLIC \o <<SLASH, "a">>,
     <<"x", "/">> \o DOTDOT \o <<SLASH, "a">>,
     <<"a", "/">> \o DOTDOT \o <<SLASH, "a">>,
     DOTDOT \o <<SLASH>> \o DOTDOT \o <<SLASH, "s", "r", "v", "/">> \o DOTENV,
     <<SLASH, "s", "r", "v", "/">> \o DOTENV,
     <<SLASH, "s", "r", "v", "/">> \o PUBLIC \o <<SLASH, "a">>}

InitPages ==
    /\ ServiceOff
    /\ LimiterOff
    /\ DatabaseOff
    /\ last = NoRequest
    /\ disk \in SUBSET FileCandidates

ServeStaticFiles(filename) ==
    /\ last' = [op |-> "static", filename |-> filename,
                file_path |-> PathStr(PathJoin(Path(PUBLIC), Path(filename))),
                named |-> Lookup(PathJoin(Path(PUBLIC), Path(filename))),
                response |-> serve_static_files(filename)]
    /\ UNCHANGED <<service, components>>

LoginPage ==
    /\ last' = [op |-> "login_page", raised |-> login_page_try.exc,
                response |-> login_page]
    /\ UNCHANGED <<service, components>>

NextPages ==
    \/ \E filename \in StaticFilenames : ServeStaticFiles(filename)
    \/ LoginPage

SpecPages == InitPages /\ [][NextPages]_vars

-----------------------------------------------------------------------------
(* The database-backed login (api/auth.py, models/user.py) *)

\* user.<name>: the value of the column, or AttributeError where User has
\* no attribute of that name
getattr(user, name) ==
    IF name \in DOMAIN user
    THEN [exc |-> "none", ret |-> user[name]]
    ELSE [exc |-> "AttributeError", ret |-> PyNone]

\* utils.security.get_password_hash: the hash stored for a password
security_get_password_hash(password) == sha256_hexdigest(Encode(password))

\* utils.security.verify_password: the hash is the one stored for the
\* password
security_verify_password(plain_password, hashed_password) ==
    security_get_password_hash(plain_password) = hashed_password

\* utils.security.create_access_token(data): a signed token carrying data
security_create_access_token(data) == [jwt |-> data]

\* db.query(User).filter(User.email == email).first()
first_by_email(email) ==
    IF \E user \in users_table : user.email = email
    THEN CHOOSE user \in users_table : user.email = email
    ELSE PyNone

LoginResponse(access_token, user) ==
    [status |-> 200,
     body |-> [access_token |-> access_token, token_type |-> "bearer",
               user_id |-> user.id, email |-> user.email,
               role |-> user.role]]

\* the try block of login (api/auth.py): the response it returns or the
\* exception it raises
auth_login_try(email, password, mfa_code) ==
    LET user == first_by_email(email)
        password_hash == getattr(user, "password_hash")
    IN  IF user = PyNone
        THEN [exc |-> "HTTPException",
              ret |-> HTTPException(401, "Invalid credentials")]
        ELSE IF password_hash.exc # "none"
        THEN [exc |-> password_hash.exc, ret |-> PyNone]
        ELSE IF ~security_verify_password(password, password_hash.ret)
        THEN [exc |-> "HTTPException",
              ret |-> HTTPException(401, "Invalid credentials")]
        ELSE IF user.mfa_enabled /\ ~Truthy(mfa_code)
        THEN [exc |-> "HTTPException",
              ret |-> HTTPException(400, "MFA code required")]
        ELSE [exc |-> "none",
              ret |-> LoginResponse(
                          security_create_access_token([sub |-> user.email]),
                          user)]

\* POST /login of auth_router: an HTTPException is raised again as it is,
\* any other exception is answered 500
auth_login(email, password, mfa_code) ==
    LET tried == auth_login_try(email, password, mfa_code)
    IN  IF tried.exc \in {"none", "HTTPException"}
        THEN tried.ret
        ELSE HTTPException(500, "Internal server error")

EmailA == <<"a", "@", "x">>
EmailB == <<"b", "@", "x">>
Emails == {EmailA, EmailB}
AuthPasswords == {<<"a">>, <<>>}
MfaCodes == {PyNone, PyStr(<<>>), PyStr(<<"1">>)}

\* the rows user a@x may have, its password being "a"; the fields are
\* columns of User (models/user.py), which has no password_hash
UserRows ==
    {[id |-> 1, email |-> EmailA,
      hashed_password |-> security_get_password_hash(<<"a">>),
      role |-> "viewer", is_active |-> active, mfa_enabled |-> mfa,
      failed_login_attempts |-> failed, locked_until |-> locked] :
        active \in BOOLEAN, mfa \in BOOLEAN, failed \in {0, 5},
        locked \in {PyNone, PyInt(1)}}

InitAuth ==
    /\ ServiceOff
    /\ LimiterOff
    /\ PagesOff
    /\ last = NoRequest
    /\ users_table \in {{}} \cup {{user} : user \in UserRows}
    /\ versions = <<>>
    /\ newest = PyNone
    /\ infographic_permissions = <<>>

AuthLogin(email, password, mfa_code) ==
    /\ last' = [op |-> "auth_login", email |-> email, password |-> password,
                mfa_code |-> mfa_code,
                raised |-> auth_login_try(email, password, mfa_code).exc,
                response |-> auth_login(email, password, mfa_code)]
    /\ UNCHANGED <<service, components>>

NextAuth ==
    \E email \in Emails, password \in AuthPasswords, mfa_code \in MfaCodes :
        AuthLogin(email, password, mfa_code)

SpecAuth == InitAuth /\ [][NextAuth]_vars

-----------------------------------------------------------------------------
(* Infographic versions (models/infographic.py) *)

\* len(self.versions)
version_count == Len(versions)

\* the greatest of a non-empty set of numbers
Greatest(numbers) == CHOOSE n \in numbers : \A m \in numbers : m <= n

\* Optional[InfographicVersion]: max(self.versions, key=...) is the first
\* version that has the greatest version_number
current_version ==
    IF versions # <<>>
    THEN LET top == Greatest({versions[i].version_number :
                                 i \in 1..Len(versions)})
             at == CHOOSE i \in 1..Len(versions) :
                       /\ versions[i].version_number = top
                       /\ \A j \in 1..(i - 1) :
                              versions[j].version_number # top
         IN  versions[at]
    ELSE PyNone

\* the InfographicVersion create_version returns; id is the primary key
\* the database gives it
create_version(id) == [id |-> id, version_number |-> version_count + 1]

\* versions without its i-th element
Without(i) == SubSeq(versions, 1, i - 1) \o SubSeq(versions, i + 1, Len(versions))

\* the primary keys given out so far
Created == IF newest = PyNone THEN 0 ELSE newest.id

InitVersions ==
    /\ ServiceOff
    /\ LimiterOff
    /\ PagesOff
    /\ last = NoRequest
    /\ users_table = {}
    /\ versions = <<>>
    /\ newest = PyNone
    /\ infographic_permissions = <<>>

\* infographic.versions.append(infographic.create_version(content))
CreateVersion ==
    LET version == create_version(Created + 1)
    IN  /\ Created < MaxVersions
        /\ versions' = Append(versions, version)
        /\ newest' = version
        /\ last' = [op |-> "create_version", before |-> versions,
                    version |-> version]
        /\ UNCHANGED <<service, limiter, pages, users_table,
                       infographic_permissions>>

\* infographic.versions.remove(version)
RemoveVersion(i) ==
    /\ versions' = Without(i)
    /\ last' = [op |-> "remove_version", before |-> versions,
                version |-> versions[i]]
    /\ UNCHANGED <<service, limiter, pages, users_table, newest,
                   infographic_permissions>>

NextVersions ==
    \/ CreateVersion
    \/ \E i \in 1..Len(versions) : RemoveVersion(i)

SpecVersions == InitVersions /\ [][NextVersions]_vars

-----------------------------------------------------------------------------
(* Access checks (models/user.py, models/infographic.py) *)

\* UserRole
ADMIN == "admin"
UserRoles == {ADMIN, "lawyer", "client", "viewer"}

\* User.can_access_infographic: infographic_permissions is the list of the
\* user's permission rows, cases the list of its case participations, each
\* with the ids of the infographics of the case; the first row for the
\* infographic decides
can_access_infographic(self, infographic_id) ==
    IF self.role = ADMIN THEN TRUE
    ELSE IF \E i \in 1..Len(self.infographic_permissions) :
                self.infographic_permissions[i].infographic_id
                    = infographic_id
    THEN LET at == CHOOSE i \in 1..Len(self.infographic_permissions) :
                       /\ self.infographic_permissions[i].infographic_id
                              = infographic_id
                       /\ \A j \in 1..(i - 1) :
                              self.infographic_permissions[j].infographic_id
                                  # infographic_id
         IN  self.infographic_permissions[at].can_view
    ELSE \E c \in 1..Len(self.cases) :
             \E k \in 1..Len(self.cases[c]) :
                 self.cases[c][k] = infographic_id

\* Infographic.can_be_accessed_by: permissions is the list of the
\* infographic's permission rows
can_be_accessed_by(self, user_id, user_role) ==
    IF self.is_public THEN TRUE
    ELSE IF user_role = "admin" THEN TRUE
    ELSE \E i \in 1..Len(self.permissions) :
             /\ self.permissions[i].user_id = user_id
             /\ self.permissions[i].can_view

\* the rows of table infographic_permissions, for two users and two
\* infographics
PermissionRows ==
    [infographic_id : {1, 2}, user_id : {1, 2}, can_view : BOOLEAN]

PermissionTables == UNION {[1..n -> PermissionRows] : n \in 0..MaxRows}

\* user 1 with the given role: its relationships hold the rows and the
\* cases that are its own
UserOf(role, case_infographics) ==
    [id |-> 1, role |-> role,
     infographic_permissions |->
         SelectSeq(infographic_permissions, LAMBDA row : row.user_id = 1),
     cases |-> <<case_infographics>>]

\* infographic 1: its relationship holds the rows that are its own
InfographicOf(is_public) ==
    [id |-> 1, is_public |-> is_public,
     permissions |-> SelectSeq(infographic_permissions,
                               LAMBDA row : row.infographic_id = 1)]

InitAccess ==
    /\ ServiceOff
    /\ LimiterOff
    /\ PagesOff
    /\ last = NoRequest
    /\ users_table = {}
    /\ versions = <<>>
    /\ newest = PyNone
    /\ infographic_permissions \in PermissionTables

\* both checks for one user and one infographic of the same database
CheckAccess(role, is_public, case_infographics) ==
    LET user == UserOf(role, case_infographics)
        infographic == InfographicOf(is_public)
    IN  /\ call' = [fn |-> "access", user |-> user,
                    infographic |-> infographic,
                    by_user |-> can_access_infographic(user, infographic.id),
                    by_infographic |->
                        can_be_accessed_by(infographic, user.id, user.role)]
        /\ UNCHANGED <<USERS, public_files, last, issued, first, tokens,
                       startup, attempts, components>>

NextAccess ==
    \E role \in UserRoles, is_public \in BOOLEAN,
       case_infographics \in {<<>>, <<1>>, <<2>>} :
        CheckAccess(role, is_public, case_infographics)

SpecAccess == InitAccess /\ [][NextAccess]_vars

-----------------------------------------------------------------------------
(* Direct calls of the functions *)

InitFn ==
    /\ USERS = EnvUnset
    /\ public_files = {}
    /\ last = NoRequest
    /\ issued = {}
    /\ first = NoCall
    /\ call = NoCall
    /\ tokens = {}
    /\ startup = USERS
    /\ attempts = NoneWatched
    /\ ComponentsOff

\* verify_password(p, get_password_hash(p)) in main.py
HashThenVerify(password, random) ==
    LET hashed == get_password_hash(password, random)
    IN  /\ call' = [fn |-> "get_password_hash", password |-> password,
                    ret |-> hashed,
                    verified |-> verify_password(password, PyStr(hashed))]
        /\ UNCHANGED <<USERS, public_files, last, issued, first, tokens, startup,
                       attempts,
                   components>>

\* verify_password(p, hash_password(p)) in create_users.py
CreateUsersHashThenVerify(password, random) ==
    LET hashed == hash_password(password, random)
    IN  /\ call' = [fn |-> "hash_password", password |-> password,
                    ret |-> hashed,
                    verified |->
                        create_users_verify_password(password, PyStr(hashed))]
        /\ UNCHANGED <<USERS, public_files, last, issued, first, tokens, startup,
                       attempts,
                   components>>

\* two calls get_password_hash(p), each verified
HashTwice(password, random1, random2) ==
    LET hashed1 == get_password_hash(password, random1)
        hashed2 == get_password_hash(password, random2)
    IN  /\ call' = [fn |-> "get_password_hash twice", password |-> password,
                    random1 |-> random1, random2 |-> random2,
                    ret1 |-> hashed1, ret2 |-> hashed2,
                    verified1 |-> verify_password(password, PyStr(hashed1)),
                    verified2 |-> verify_password(password, PyStr(hashed2))]
        /\ UNCHANGED <<USERS, public_files, last, issued, first, tokens, startup,
                       attempts,
                   components>>

\* two calls hash_password(p) in create_users.py, each verified
CreateUsersHashTwice(password, random1, random2) ==
    LET hashed1 == hash_password(password, random1)
        hashed2 == hash_password(password, random2)
    IN  /\ call' = [fn |-> "hash_password twice", password |-> password,
                    random1 |-> random1, random2 |-> random2,
                    ret1 |-> hashed1, ret2 |-> hashed2,
                    verified1 |->
                        create_users_verify_password(password, PyStr(hashed1)),
                    verified2 |->
                        create_users_verify_password(password, PyStr(hashed2))]
        /\ UNCHANGED <<USERS, public_files, last, issued, first, tokens, startup,
                       attempts,
                   components>>

VerifyPassword(password, hashed_password) ==
    /\ call' = [fn |-> "verify_password", password |-> password,
                hashed_password |-> hashed_password,
                ret |-> verify_password(password, hashed_password)]
    /\ UNCHANGED <<USERS, public_files, last, issued, first, tokens, startup,
                   attempts,
                   components>>

\* verify_password(p, d) in create_users.py
CreateUsersVerifyPassword(password, hashed_password) ==
    /\ call' = [fn |-> "create_users.verify_password", password |-> password,
                hashed_password |-> hashed_password,
                ret |-> create_users_verify_password(password, hashed_password)]
    /\ UNCHANGED <<USERS, public_files, last, issued, first, tokens, startup,
                   attempts,
                   components>>

\* verify_token(create_access_token(u))
IssueThenVerify(username) ==
    LET token == create_access_token(username)
    IN  /\ call' = [fn |-> "create_access_token", username |-> username,
                    ret |-> token, verified |-> verify_token(token)]
        /\ UNCHANGED <<USERS, public_files, last, issued, first, tokens, startup,
                       attempts,
                   components>>

VerifyToken(token) ==
    /\ call' = [fn |-> "verify_token", token |-> token,
                ret |-> verify_token(token)]
    /\ UNCHANGED <<USERS, public_files, last, issued, first, tokens, startup,
                   attempts,
                   components>>

\* digests handed to verify_password directly
CallDigests ==
    DigestValues
    \cup {PyStr(<<DOLLAR>> \o UnsaltedHash(p)) : p \in Passwords}

NextFn ==
    \/ \E password \in Passwords, random \in urandom(SaltBytes) :
           HashThenVerify(password, random)
    \/ \E password \in Passwords, random \in urandom(SaltBytes) :
           CreateUsersHashThenVerify(password, random)
    \/ \E password \in Passwords, random1, random2 \in urandom(SaltBytes) :
           HashTwice(password, random1, random2)
    \/ \E password \in Passwords, random1, random2 \in urandom(SaltBytes) :
           CreateUsersHashTwice(password, random1, random2)
    \/ \E password \in Passwords, hashed_password \in CallDigests :
           VerifyPassword(password, hashed_password)
    \/ \E password \in Passwords, hashed_password \in CallDigests :
           CreateUsersVerifyPassword(password, hashed_password)
    \/ \E username \in IssueNames : IssueThenVerify(username)
    \/ \E token \in TokenStrings : VerifyToken(token)

SpecFn == InitFn /\ [][NextFn]_vars

----------------------------------------------------------------------------
(* Properties *)

\* The credential mapping the configuration denotes: the JSON object of
\* USERS; an absent or malformed value denotes zero users.
CredentialMapping ==
    IF get_users.t = "dict" THEN get_users.v ELSE [u \in {} |-> PyNone]

Configured(username) == username \in DOMAIN CredentialMapping

InvalidCredentials == HTTPException(401, "Invalid username or password")

CountOf(s, c) == Cardinality({i \in 1..Len(s) : s[i] = c})

\* C1: verify_password(p, get_password_hash(p)) is true for every password p
\* and every salt drawn, in main.py and in create_users.py.
C1_PasswordRoundTrip ==
    call.fn \in {"get_password_hash", "hash_password"} => call.verified = TRUE

C1_Witness ==
    /\ call.fn = "get_password_hash"
    /\ call.password = <<DOLLAR>>
    /\ call.verified = TRUE

\* C2: login answers 200 with access_token = create_access_token(username),
\* token_type "bearer" and the username exactly when the username is a key
\* of the credential mapping and its digest verifies the password; in every
\* other case it answers 401 without a token.
C2_LoginIffAuthenticated ==
    last.op = "login" =>
        LET ok == /\ Configured(last.username)
                  /\ verify_password(last.password,
                                     CredentialMapping[last.username])
        IN  IF ok
            THEN last.response =
                     [status |-> 200,
                      body |-> [access_token |->
                                    create_access_token(last.username),
                                token_type |-> "bearer",
                                username |-> last.username]]
            ELSE /\ last.response.status = 401
                 /\ "access_token" \notin DOMAIN last.response.body

\* C3: authenticate_user returns False, and raises nothing, for every
\* username that is not a key of the credential mapping.
C3_UnknownUserIsFalse ==
    (last.op = "login" /\ ~Configured(last.username)) =>
        last.auth = [exc |-> "none", ret |-> FALSE]

\* C4: a failed login naming an unknown username and a failed login naming a
\* configured username get the same response, 401 "Invalid username or
\* password".
C4_NoUserEnumeration ==
    (last.op = "login" /\ ~Configured(last.username)
                       /\ last.response.status # 200) =>
        \A username \in LoginNames, password \in Passwords :
            (Configured(username) /\ login(username, password).status # 200) =>
                /\ login(username, password) = last.response
                /\ last.response = InvalidCredentials

C4_Witness ==
    /\ last.op = "login"
    /\ ~Configured(last.username)
    /\ last.response = InvalidCredentials
    /\ \E username \in LoginNames, password \in Passwords :
           /\ Configured(username)
           /\ CredentialMapping[username] \in {PyStr(d) : d \in GoodDigests}
           /\ login(username, password).status # 200

\* a stored value without the salt$hash structure: not a string, or a string
\* with no '$' or with more than one
LacksStructure(d) == d.t # "str" \/ CountOf(d.v, DOLLAR) # 1

\* C5: verify_password returns False for every stored value that lacks the
\* salt$hash structure, so the login of that user is answered 401, and the
\* login of every other user is decided by that user's own entry.
C5_MalformedDigestDenies ==
    (last.op = "login" /\ get_users.t = "dict") =>
        /\ (Configured(last.username)
                /\ LacksStructure(CredentialMapping[last.username])) =>
               /\ last.auth = [exc |-> "none", ret |-> FALSE]
               /\ last.response = InvalidCredentials
        /\ (\E other \in DOMAIN CredentialMapping :
                other # last.username
                    /\ LacksStructure(CredentialMapping[other])) =>
               /\ last.auth.exc = "none"
               /\ last.response.status \in {200, 401}
               /\ last.response.status = 200 <=>
                      /\ Configured(last.username)
                      /\ verify_password(last.password,
                                         CredentialMapping[last.username])

C5_Witness ==
    /\ last.op = "login"
    /\ Configured(last.username)
    /\ CredentialMapping[last.username].t = "str"
    /\ CountOf(CredentialMapping[last.username].v, DOLLAR) = 2
    /\ last.response = InvalidCredentials

\* C6: verify_password returns False when the part of the digest before the
\* '$' is empty or the part after it is empty.
C6_EmptyPartsFailClosed ==
    (/\ call.fn = "verify_password"
     /\ call.hashed_password.t = "str"
     /\ CountOf(call.hashed_password.v, DOLLAR) >= 1
     /\ \/ Head(call.hashed_password.v) = DOLLAR
        \/ call.hashed_password.v[Len(call.hashed_password.v)] = DOLLAR)
        => call.ret = FALSE

\* C7: verify_token(create_access_token(u)) is u for every non-empty username
\* u that contains neither "user_" nor "_token".
C7_TokenRoundTrip ==
    (/\ call.fn = "create_access_token"
     /\ call.username # <<>>
     /\ ~IsSubstring(TOKEN_PREFIX, call.username)
     /\ ~IsSubstring(TOKEN_SUFFIX, call.username))
        => call.verified = PyStr(call.username)

C7_Witness ==
    /\ call.fn = "create_access_token"
    /\ call.username = <<"a", "_">>
    /\ call.verified = PyStr(call.username)

\* C8: verify_token returns None for every string that does not both start
\* with "user_" and end with "_token".
C8_GarbageIsNoIdentity ==
    (/\ call.fn = "verify_token"
     /\ ~(StartsWith(call.token, TOKEN_PREFIX)
              /\ EndsWith(call.token, TOKEN_SUFFIX)))
        => call.ret = PyNone

C8_Witness ==
    /\ call.fn = "verify_token"
    /\ StartsWith(call.token, TOKEN_PREFIX)
    /\ ~EndsWith(call.token, TOKEN_SUFFIX)
    /\ call.ret = PyNone

\* C9: verify_token returns None for a token that starts with the prefix and
\* ends with the suffix but is shorter than prefix plus suffix.
C9_MinimalLength ==
    (/\ call.fn = "verify_token"
     /\ StartsWith(call.token, TOKEN_PREFIX)
     /\ EndsWith(call.token, TOKEN_SUFFIX)
     /\ Len(call.token) < Len(TOKEN_PREFIX) + Len(TOKEN_SUFFIX))
        => call.ret = PyNone

\* C10: a token verifies to the same result in every state: whatever
\* verify_token returned for a token the first time, it returns for that
\* token after any later logins and requests, and /auth/me accepts a token
\* it accepted once.
C10_TokensStateless ==
    (/\ last.op \in {"auth_me", "infographic"}
     /\ first # NoCall
     /\ last.token = PyStr(first.token))
        => /\ last.identity = first.ret
           /\ (last.op = "auth_me" /\ Truthy(first.ret)) =>
                  last.response =
                      [status |-> 200, body |-> [username |-> first.ret.v]]

C10_Witness ==
    /\ last.op = "auth_me"
    /\ first # NoCall
    /\ first.token = create_access_token(UserA)
    /\ first.fresh
    /\ last.token = PyStr(first.token)
    /\ UserA \in issued
    /\ last.response.status = 200

\* "user_" + x + "_token" with a non-empty x
WellFormedToken(token) ==
    /\ Len(token) > Len(TOKEN_PREFIX) + Len(TOKEN_SUFFIX)
    /\ StartsWith(token, TOKEN_PREFIX)
    /\ EndsWith(token, TOKEN_SUFFIX)

\* C11: token verification never consults the credential mapping: the token
\* "user_" + x + "_token" with non-empty x is accepted by GET /auth/me
\* (200, username x) and by GET /infographic in every state, also when x is
\* not a configured user and no login of x ever succeeded.
C11_VerificationIgnoresMapping ==
    \A x \in IssueNames \ {<<>>} :
        (/\ last.op \in {"auth_me", "infographic"}
         /\ last.token = PyStr(create_access_token(x)))
            => /\ last.identity = PyStr(x)
               /\ last.op = "auth_me" =>
                      last.response =
                          [status |-> 200, body |-> [username |-> x]]
               /\ (last.op = "infographic"
                       /\ "infographic.html" \in public_files) =>
                      last.response = InfographicBody

C11_Witness ==
    /\ last.op = "infographic"
    /\ last.token = PyStr(create_access_token(<<"x">>))
    /\ ~Configured(<<"x">>)
    /\ <<"x">> \notin issued
    /\ last.response = InfographicBody

\* C12: GET /infographic answers a request whose token is absent, empty or
\* not well formed with a redirect-to-login page, never with the infographic
\* and never with a 500; it returns the infographic only when verify_token
\* of the token is a non-empty username.
C12_InfographicNeedsIdentity ==
    last.op = "infographic" =>
        /\ (~Truthy(last.token) \/ ~WellFormedToken(last.token.v)) =>
               last.response \in {RedirectToLogin, InvalidTokenRedirect}
        /\ last.response = InfographicBody =>
               (Truthy(last.identity) /\ last.identity.v # <<>>)

C12_Witness ==
    /\ last.op = "infographic"
    /\ last.auth_header = PyStr(BEARER \o TOKEN_PREFIX \o UserA)
    /\ last.query_token = PyStr(create_access_token(UserA))
    /\ "infographic.html" \in public_files
    /\ last.response = InvalidTokenRedirect

\* C13: GET /auth/me returns 200 {username: verify_token(token)} when the
\* token verifies to a non-empty username and 401 "Invalid token" for every
\* other token, "user__token" included; a 200 never carries an empty
\* username.
C13_AuthMeIffIdentity ==
    last.op = "auth_me" =>
        /\ (last.identity.t = "str" /\ last.identity.v # <<>>) =>
               last.response =
                   [status |-> 200, body |-> [username |-> last.identity.v]]
        /\ ~(last.identity.t = "str" /\ last.identity.v # <<>>) =>
               last.response = HTTPException(401, "Invalid token")
        /\ last.token = PyStr(create_access_token(<<>>)) =>
               last.response = HTTPException(401, "Invalid token")
        /\ last.response.status = 200 =>
               last.response.body.username # <<>>

C13_Witness ==
    /\ last.op = "auth_me"
    /\ last.token = PyStr(create_access_token(<<>>))
    /\ last.identity = PyStr(<<>>)
    /\ last.response = HTTPException(401, "Invalid token")

\* USERS is absent, is not JSON, or is JSON that is not an object
NoUsableMapping ==
    \/ USERS.kind \in {"unset", "garbage"}
    \/ USERS.kind = "json" /\ USERS.value.t # "dict"

\* C14: for every value of USERS that is absent, unparseable or JSON that
\* is not an object, every login request is answered 401 (zero users
\* configured) and none is answered 500.
C14_MalformedConfigIsZeroUsers ==
    (last.op = "login" /\ NoUsableMapping) =>
        last.response = InvalidCredentials

HashedTwice == call.fn \in {"get_password_hash twice", "hash_password twice"}

\* C15 as stated: two calls of get_password_hash (hash_password) with the
\* same password never return the same digest string, and both digests
\* verify the password.
C15_DigestsAlwaysDiffer ==
    HashedTwice =>
        /\ call.ret1 # call.ret2
        /\ call.verified1 /\ call.verified2

\* C15 amended: two calls with the same password return the same digest
\* string exactly when both calls drew the same salt bytes, and both
\* digests verify the password.
C15_DigestsDifferWithSalts ==
    HashedTwice =>
        /\ (call.ret1 = call.ret2) <=> (call.random1 = call.random2)
        /\ call.verified1 /\ call.verified2

C15_Witness ==
    /\ call.fn = "get_password_hash twice"
    /\ call.password = <<"a">>
    /\ call.random1 # call.random2
    /\ call.ret1 # call.ret2
    /\ call.verified1 /\ call.verified2

\* C16: create_access_token is deterministic: every login of a username,
\* in whatever state, returns the same token string, and different
\* usernames get different tokens.
C16_IssueDeterministic ==
    /\ \A s, t \in tokens : (s[1] = t[1]) <=> (s[2] = t[2])
    /\ \A u, v \in IssueNames :
           u # v => create_access_token(u) # create_access_token(v)

C16_Witness ==
    /\ attempts[UserA].ok = MaxAttempts
    /\ attempts[UserA].failed > 0
    /\ UserB \in issued
    /\ Cardinality(tokens) = 2

\* the password is the one the digest stored at startup for the username
\* was made from
CorrectPassword(username, password) ==
    /\ startup.kind = "json"
    /\ startup.value.t = "dict"
    /\ username \in DOMAIN startup.value.v
    /\ \E random \in urandom(SaltBytes) :
           startup.value.v[username] = PyStr(hash_password(password, random))

\* C17: no handler writes shared state: after any interleaving of login,
\* /auth/me and /infographic requests USERS is what it was at startup, and
\* a login is answered as it is when run alone: 200 with the correct
\* password, however many logins of that user failed before, and 401
\* otherwise.
C17_HandlersWriteNothing ==
    /\ USERS = startup
    /\ last.op = "login" =>
           IF CorrectPassword(last.username, last.password)
           THEN last.response =
                    [status |-> 200,
                     body |-> [access_token |->
                                   create_access_token(last.username),
                               token_type |-> "bearer",
                               username |-> last.username]]
           ELSE last.response = InvalidCredentials

C17_Witness ==
    /\ last.op = "login"
    /\ last.username = UserA
    /\ attempts[UserA].failed = MaxAttempts
    /\ first # NoCall
    /\ last.response.status = 200

\* C18: the credential mapping is loaded once at process start: a login is
\* answered 200 exactly when the password is correct for the mapping USERS
\* held at startup, also after USERS has taken another value.
C18_LoginsUseStartupMapping ==
    last.op = "login" =>
        (last.response.status = 200
             <=> CorrectPassword(last.username, last.password))

\* C19: an unexpected error raised while a request is handled is answered
\* 500 "Internal server error", and an HTTPException a handler raises
\* deliberately (here the 404 of /infographic) reaches the caller with its
\* own status and detail.
C19_ErrorsReachCaller ==
    /\ (last.op = "login" /\ last.auth.exc # "none") =>
           last.response =
               [status |-> 500, body |-> [detail |-> "Internal server error"]]
    /\ (last.op = "infographic" /\ last.raised = "HTTPException") =>
           last.response = HTTPException(404, "Infographic file not found")

\* the service runs on the USERS value create_users printed, and the last
\* request was a login
Provisioned ==
    /\ call.fn = "create_users"
    /\ call.pc = "deployed"
    /\ last.op = "login"

TokenResponse(username) ==
    [status |-> 200,
     body |-> [access_token |-> create_access_token(username),
               token_type |-> "bearer",
               username |-> username]]

\* C20 as stated: with USERS the JSON create_users printed, a login with
\* the username and the password exactly as they were typed at the prompts
\* is answered 200 with a token, and a login with that username and any
\* other password is answered 401.
C20_LoginAsTyped ==
    (Provisioned /\ last.username = call.typed.username) =>
        IF last.password = call.typed.password
        THEN last.response = TokenResponse(last.username)
        ELSE last.response = InvalidCredentials

\* C20 amended: with USERS the JSON create_users printed, a login with the
\* typed username and the typed password, each with the blanks at its ends
\* removed, is answered 200 with a token, and a login with that username and
\* any other password is answered 401.
C20_LoginAsStored ==
    (Provisioned /\ last.username = strip(call.typed.username)) =>
        IF last.password = strip(call.typed.password)
        THEN last.response = TokenResponse(last.username)
        ELSE last.response = InvalidCredentials

C20_Witness ==
    /\ Provisioned
    /\ call.typed = [username |-> <<" ", "a">>, password |-> <<"a", " ">>]
    /\ last.username = <<"a">>
    /\ last.password = <<"a">>
    /\ last.response = TokenResponse(<<"a">>)

\* the position of the first c in s, 0 when there is none
FirstIndexOf(s, c) ==
    IF \E i \in 1..Len(s) : s[i] = c
    THEN CHOOSE i \in 1..Len(s) : s[i] = c /\ \A j \in 1..(i - 1) : s[j] # c
    ELSE 0

\* the reference: the digest split on its first '$' into salt and expected
\* hash, and hash(password + salt) compared with the expected hash
ReferenceVerify(password, digest) ==
    LET at == FirstIndexOf(digest, DOLLAR)
    IN  /\ at > 0
        /\ sha256_hexdigest(Encode(password \o SubSeq(digest, 1, at - 1)))
               = SubSeq(digest, at + 1, Len(digest))

\* C21: verify_password (main.py and create_users.py) returns, for every
\* password and every digest string, what the reference returns that splits
\* the digest on the first '$'; also for digests with two or more '$'.
C21_AgreesWithFirstDollarSplit ==
    (/\ call.fn \in {"verify_password", "create_users.verify_password"}
     /\ call.hashed_password.t = "str")
        => (call.ret <=> ReferenceVerify(call.password, call.hashed_password.v))

C21_Witness ==
    /\ call.fn = "verify_password"
    /\ call.hashed_password.t = "str"
    /\ CountOf(call.hashed_password.v, DOLLAR) = 2
    /\ call.hashed_password.v[Len(call.hashed_password.v)] # DOLLAR
    /\ call.password = <<"a">>
    /\ ~call.ret
    /\ ~ReferenceVerify(call.password, call.hashed_password.v)

\* the instants at which a window may start
WindowStarts == {k * Granularity : k \in 0..MaxTicks}

\* the requests of the client passed to call_next at a time in [from, from + 60)
AdmittedIn(client_ip, from) ==
    Cardinality({i \in 1..Len(admitted[client_ip]) :
                    /\ from <= admitted[client_ip][i]
                    /\ admitted[client_ip][i] < from + WINDOW})

\* the requests of the client passed to call_next less than 60 seconds
\* before the given time
AdmittedLately(client_ip, time) ==
    Cardinality({i \in 1..Len(admitted[client_ip]) :
                    time - admitted[client_ip][i] < WINDOW})

\* C22: for every client IP, in every reachable state, at most
\* requests_per_minute requests were passed to call_next within any 60-second
\* window, the list kept for the IP holds at most requests_per_minute times,
\* and whether a request is passed on depends on the requests of its own IP
\* only.
C22_RateBound ==
    /\ \A client_ip \in DOMAIN admitted, from \in WindowStarts :
           AdmittedIn(client_ip, from) <= requests_per_minute
    /\ \A client_ip \in DOMAIN requests :
           Len(requests[client_ip]) <= requests_per_minute
    /\ (last.op = "dispatch" /\ last.client_ip \in DOMAIN admitted) =>
           IF last.exc = "none"
           THEN AdmittedLately(last.client_ip, last.current_time)
                    <= requests_per_minute
           ELSE AdmittedLately(last.client_ip, last.current_time)
                    >= requests_per_minute

C22_Witness ==
    /\ last.op = "dispatch"
    /\ last.client_ip = WatchedIP
    /\ last.exc = "none"
    /\ requests_per_minute = MaxLimit
    /\ Len(admitted[WatchedIP]) > requests_per_minute
    /\ "10.0.0.2" \in DOMAIN requests
    /\ Len(requests["10.0.0.2"]) = requests_per_minute

\* C23: dispatches of one IP that are suspended at call_next at the same
\* time never lose or repeat a recorded time: the list kept for the IP is
\* the end of the sequence of its admitted requests and holds every one of
\* them less than 60 seconds old, so the admitted requests in a window stay
\* within requests_per_minute.
C23_DispatchAtomic ==
    \A client_ip \in DOMAIN admitted :
        LET kept == requests_of(client_ip)
            all == admitted[client_ip]
        IN  /\ Len(kept) <= Len(all)
            /\ kept = SubSeq(all, Len(all) - Len(kept) + 1, Len(all))
            /\ Len(kept) >= AdmittedLately(client_ip, now)
            /\ AdmittedLately(client_ip, now) <= requests_per_minute

C23_Witness ==
    /\ pending[WatchedIP] = 2
    /\ requests_per_minute = 2
    /\ last.op = "dispatch"
    /\ last.client_ip = WatchedIP
    /\ last.exc = "HTTPException"
    /\ last.current_time = last.before[1]

\* the least element of a non-empty sequence of times
Oldest(times) ==
    CHOOSE t \in {times[i] : i \in 1..Len(times)} :
        \A i \in 1..Len(times) : t <= times[i]

\* C24: a rejected request is not recorded, and a client is admitted as
\* soon as 60 seconds or more have passed since the oldest request recorded
\* for it, a time exactly 60 seconds old no longer counting, however many
\* of its requests were rejected before.
C24_Recovery ==
    last.op = "dispatch" =>
        /\ last.exc # "none" =>
               /\ Len(requests[last.client_ip]) <= Len(last.before)
               /\ \A i \in 1..Len(requests[last.client_ip]) :
                      \E j \in 1..Len(last.before) :
                          requests[last.client_ip][i] = last.before[j]
        /\ (/\ last.before # <<>>
            /\ last.current_time - Oldest(last.before) >= WINDOW)
               => last.exc = "none"

C24_Witness ==
    /\ last.op = "dispatch"
    /\ last.exc = "none"
    /\ Len(last.before) = requests_per_minute
    /\ last.current_time - Oldest(last.before) = WINDOW
    /\ last.rejected = MaxRejected

\* C25: a request for /infographic with a valid token, public/infographic.html
\* missing, is answered 404 "Infographic file not found".
C25_MissingInfographicIs404 ==
    (/\ last.op = "infographic"
     /\ Truthy(last.identity)
     /\ "infographic.html" \notin public_files)
        => last.response = HTTPException(404, "Infographic file not found")

\* the file lies under the public directory of the working directory
InsidePublic(file) ==
    /\ Len(file) > Len(Cwd) + 1
    /\ SubSeq(file, 1, Len(Cwd) + 1) = Cwd \o <<PUBLIC>>

\* C26: serve_static_files returns a file only when the path the request
\* names lies inside public/, and answers 403 or 404 for every path that
\* names something outside it.
C26_OnlyPublicFilesServed ==
    last.op = "static" =>
        /\ last.response.status = 200
               => InsidePublic(last.response.body.file)
        /\ (last.named.found /\ ~InsidePublic(last.named.at))
               => last.response.status \in {403, 404}

\* the request carries an Authorization header that starts with "Bearer "
BearerHeader ==
    /\ last.auth_header.t = "str"
    /\ Len(last.auth_header.v) >= 7
    /\ SubSeq(last.auth_header.v, 1, 7) = BEARER

\* what follows "Bearer " in the header
HeaderToken == SubSeq(last.auth_header.v, 8, Len(last.auth_header.v))

\* the text is a token verify_token accepts for a non-empty username
UsableToken(text) == text # <<>> /\ Truthy(verify_token(text))

\* the request was answered with one of the two pages that lead to /login
Denied == last.response \in {RedirectToLogin, InvalidTokenRedirect}

\* C27: on /infographic a header starting with "Bearer " alone decides: the
\* request is denied exactly when the header's token is empty or invalid,
\* whatever the token query parameter holds; without such a header the
\* query parameter decides.
C27_HeaderBeforeQuery ==
    last.op = "infographic" =>
        IF BearerHeader
        THEN /\ last.token = PyStr(HeaderToken)
             /\ Denied <=> ~UsableToken(HeaderToken)
        ELSE /\ last.token = last.query_token
             /\ Denied <=> ~(/\ last.query_token.t = "str"
                             /\ UsableToken(last.query_token.v))

C27_Witness ==
    /\ last.op = "infographic"
    /\ BearerHeader
    /\ HeaderToken = <<>>
    /\ last.query_token = PyStr(create_access_token(UserA))
    /\ last.response = RedirectToLogin

\* C28: the login of api/auth.py answers with an access token whose sub is
\* the user's email exactly when a user with the email exists, the password
\* verifies against the stored hash, and MFA is disabled or a non-empty
\* mfa_code was sent; an unknown email or a wrong password is answered 401
\* "Invalid credentials", a missing code 400 "MFA code required"; is_active,
\* locked_until, failed_login_attempts and the value of the code play no
\* part.
C28_JwtLoginOutcome ==
    last.op = "auth_login" =>
        LET user == first_by_email(last.email)
        IN  last.response =
                IF user = PyNone
                THEN HTTPException(401, "Invalid credentials")
                ELSE IF ~security_verify_password(last.password,
                                                  user.hashed_password)
                THEN HTTPException(401, "Invalid credentials")
                ELSE IF user.mfa_enabled /\ ~Truthy(last.mfa_code)
                THEN HTTPException(400, "MFA code required")
                ELSE LoginResponse(
                         security_create_access_token([sub |-> user.email]),
                         user)

\* C29: after any sequence of create_version calls, each version attached
\* to versions, and removals, no two versions share a version_number, a
\* version just created has a number greater than that of every version
\* there was, and current_version is the version created last.
C29_VersionNumbersUnique ==
    /\ \A i, j \in 1..Len(versions) :
           versions[i].version_number = versions[j].version_number => i = j
    /\ last.op = "create_version" =>
           /\ \A i \in 1..Len(last.before) :
                  last.version.version_number
                      > last.before[i].version_number
           /\ current_version = last.version

\* C30: for every user, infographic, permission rows and case memberships,
\* User.can_access_infographic(infographic.id) and
\* Infographic.can_be_accessed_by(user.id, user.role) give the same answer,
\* and both grant an admin access.
C30_AccessChecksAgree ==
    call.fn = "access" =>
        /\ call.by_user = call.by_infographic
        /\ call.user.role = ADMIN => (call.by_user /\ call.by_infographic)

====
